---- MODULE Spec2Model ----
(***************************************************************************)
(* pcore: platform strings (UTF-16, Windows flavour), the HSTRING          *)
(* trampoline and release pools, as a state machine over a small heap.     *)
(*                                                                         *)
(* A string scenario starts from one caller input (a &str, a pstr!         *)
(* literal, a &Path or a raw u16 slice wrapped in U16ZErasedLength) and    *)
(* then applies the public operations of src/string/windows.rs in any      *)
(* order the borrow checker accepts.  The NSString conversions of          *)
(* src/string/macos.rs and the Error wrapper of src/error have small state *)
(* machines of their own.                                                  *)
(***************************************************************************)
EXTENDS Integers, Sequences, FiniteSets, TLC

\* ---------------------------------------------------------------- bounds
MaxTextLen == 2
MaxUnits == 2
MaxBufs == 3
MaxPools == 4
MaxErased == 5
MaxCells == 3
MaxErrorCode == 4
MaxStack == 3

\* Code points an application text is built from: NUL, 'h', and U+10000
\* (outside the Basic Multilingual Plane: it encodes as a surrogate pair).
Chars == {0, 104, 65536}
\* Raw UTF-16 code units of caller-supplied buffers and OS strings: NUL, 'h',
\* and a high surrogate (unpaired wherever it stands: no low one follows).
Units == {0, 104, 55296}

SeqsUpTo(S, n) == UNION {[1..k -> S] : k \in 0..n}
Texts == SeqsUpTo(Chars, MaxTextLen)
UnitSeqs == SeqsUpTo(Units, MaxUnits)
Range(s) == {s[i] : i \in 1..Len(s)}

\* ------------------------------------------------- UTF-16 encode / decode
\* char::encode_utf16: one unit inside the BMP, a surrogate pair outside.
EncodeCharTruncating(c) == <<c % 65536>>
EncodeChar(c) ==
  IF c < 65536 THEN <<c>>
  ELSE <<55296 + ((c - 65536) \div 1024), 56320 + ((c - 65536) % 1024)>>

RECURSIVE encode_utf16(_)
encode_utf16(t) ==
  IF t = <<>> THEN <<>> ELSE EncodeChar(Head(t)) \o encode_utf16(Tail(t))

IsHigh(u) == u >= 55296 /\ u <= 56319
IsLow(u) == u >= 56320 /\ u <= 57343

\* String::from_utf16: Err on any unpaired surrogate, nothing is replaced.
\* String::from_utf16_lossy puts U+FFFD in its place instead.
RECURSIVE from_utf16_lossy(_)
from_utf16_lossy(u) ==
  IF u = <<>> THEN [ok |-> TRUE, val |-> <<>>]
  ELSE IF IsHigh(u[1]) /\ Len(u) >= 2 /\ IsLow(u[2]) THEN
    [ok |-> TRUE,
     val |-> <<65536 + (u[1] - 55296) * 1024 + (u[2] - 56320)>>
               \o from_utf16_lossy(Tail(Tail(u))).val]
  ELSE IF IsHigh(u[1]) \/ IsLow(u[1]) THEN
    [ok |-> TRUE, val |-> <<65533>> \o from_utf16_lossy(Tail(u)).val]
  ELSE [ok |-> TRUE, val |-> <<u[1]>> \o from_utf16_lossy(Tail(u)).val]

RECURSIVE from_utf16(_)
from_utf16(u) ==
  IF u = <<>> THEN [ok |-> TRUE, val |-> <<>>]
  ELSE IF ~IsHigh(u[1]) /\ ~IsLow(u[1]) THEN
    LET r == from_utf16(Tail(u))
    IN  [ok |-> r.ok, val |-> IF r.ok THEN <<u[1]>> \o r.val ELSE <<>>]
  ELSE IF IsHigh(u[1]) /\ Len(u) >= 2 /\ IsLow(u[2]) THEN
    LET r == from_utf16(Tail(Tail(u)))
        c == 65536 + (u[1] - 55296) * 1024 + (u[2] - 56320)
    IN  [ok |-> r.ok, val |-> IF r.ok THEN <<c>> \o r.val ELSE <<>>]
  ELSE [ok |-> FALSE, val |-> <<>>]

\* wchz!(literal) inside pstr!: the literal in UTF-16 plus one terminator.
\* The macro rejects a literal that holds a NUL at compile time.
Literals == {t \in Texts : 0 \notin Range(t)}
pstr(l) == encode_utf16(l) \o <<0>>

\* U16CString::from_os_str: Err(NulError) on an interior NUL.
from_os_str(u) ==
  IF 0 \in Range(u) THEN [ok |-> FALSE, val |-> <<>>]
  ELSE [ok |-> TRUE, val |-> u \o <<0>>]

\* ------------------------------------------------------------------ heap
\* A buffer is unused, static (program lifetime), live or freed.  The first
\* buffer is the caller's: the static slice of a PStr, the u16 slice behind an
\* erased view, or the String or PathBuf a &str or &Path points into (UTF-8,
\* so no UTF-16 data of it is kept).
Bufs == 1..MaxBufs
CallerBuf == CHOOSE b \in Bufs : \A c \in Bufs : b <= c
UnusedBuf == [data |-> <<>>, st |-> "unused"]
FreeIds(m) == {b \in Bufs : m[b].st = "unused"}
NewId(m) == CHOOSE b \in FreeIds(m) : \A c \in FreeIds(m) : b <= c
Alloc(m, d) == [m EXCEPT ![NewId(m)] = [data |-> d, st |-> "live"]]
Free(m, b) == IF b = 0 THEN m ELSE [m EXCEPT ![b] = [data |-> <<>>, st |-> "freed"]]
LibAllocated(m) == {b \in Bufs : b # CallerBuf /\ m[b].st \in {"live", "freed"}}
Readable(m, b) == b \in Bufs /\ m[b].st \in {"static", "live"}

VARIABLES
  input,     \* the caller's input: [kind, text, units, alive]
  mem,       \* the heap
  ps,        \* a ParameterString: [buf, len, backing, src], buf = 0: none
  kl,        \* a U16ZKnownLength: [buf, len, src], buf = 0: none
  own,       \* an OwnedString: [buf], buf = 0: none
  hdr,       \* the caller's HSTRING_HEADER: [st, ptr, len]
  ovl,       \* the ICantBelieveItsNotHString: [st, h, backing]
  pw,        \* the PWSTR of into_unsafe_const_pwzstr: [st, buf, self]
  decoded,   \* the result of the last to_string: [st, val, of]
  ghost      \* history: [panic, released, badRead, overrun]

NoPS == [buf |-> 0, len |-> 0, backing |-> 0, src |-> "none"]
NoKL == [buf |-> 0, len |-> 0, src |-> "none"]
NoOwn == [buf |-> 0]
NoOvl == [st |-> "none", h |-> 0, backing |-> 0, self |-> "none", used |-> FALSE]
NoPw == [st |-> "none", buf |-> 0, self |-> "none"]
NoDecoded == [st |-> "none", val |-> <<>>, of |-> "none"]

\* The code units a (buffer, length) view covers.
View(m, b, n) == SubSeq(m[b].data, 1, n)
PsView(m, p) == View(m, p.buf, p.len)

\* ------------------------------------------------ into_parameter_string
\* Each conversion returns [ok, ps, mem]: ok = FALSE is a panic.
Conv(okv, p, m) == [ok |-> okv, ps |-> p, mem |-> m]

\* impl IntoParameterString for &str: encode, push 0, box, view the box.
str_into_parameter_string_unterminated(text, m) ==
  LET v == encode_utf16(text)
      b == NewId(m)
  IN  Conv(TRUE, [buf |-> b, len |-> Len(v), backing |-> b, src |-> "input"],
           Alloc(m, v))
str_into_parameter_string(text, m) ==
  LET v == encode_utf16(text) \o <<0>>
      b == NewId(m)
  IN  Conv(TRUE, [buf |-> b, len |-> Len(v), backing |-> b, src |-> "input"],
           Alloc(m, v))

\* impl IntoParameterString for PStr: the static slice itself, no backing.
PStr_into_parameter_string_copying(m) ==
  LET b == NewId(m)
  IN  Conv(TRUE, [buf |-> b, len |-> Len(m[CallerBuf].data), backing |-> b,
                  src |-> "static"], Alloc(m, m[CallerBuf].data))
PStr_into_parameter_string(m) ==
  Conv(TRUE, [buf |-> CallerBuf, len |-> Len(m[CallerBuf].data),
              backing |-> 0, src |-> "static"], m)

\* impl IntoParameterString for &Path: from_os_str(..).unwrap(), box it.
Path_into_parameter_string(units, m) ==
  LET e == from_os_str(units)
      b == NewId(m)
  IN  IF ~e.ok THEN Conv(FALSE, NoPS, m)
      ELSE Conv(TRUE, [buf |-> b, len |-> Len(e.val), backing |-> b,
                       src |-> "input"], Alloc(m, e.val))

\* impl IntoParameterString for U16ZKnownLength: the same slice.
Known_into_parameter_string(k, m) ==
  Conv(TRUE, [buf |-> k.buf, len |-> k.len, backing |-> 0, src |-> k.src], m)

\* U16ZErasedLength::len_with_z: index of the first 0, plus one; 0 stands for
\* the panic "U16Z is not null-terminated" after the whole slice was scanned.
len_with_z_last(d) ==
  IF \E i \in 1..Len(d) : d[i] = 0
  THEN CHOOSE i \in 1..Len(d) : d[i] = 0 /\ \A j \in (i + 1)..Len(d) : d[j] # 0
  ELSE 0
len_with_z(d) ==
  IF \E i \in 1..Len(d) : d[i] = 0
  THEN CHOOSE i \in 1..Len(d) : d[i] = 0 /\ \A j \in 1..(i - 1) : d[j] # 0
  ELSE 0

\* The elements the loop of len_with_z reads: `for i in 0..self.0.len()` with
\* the checked index self.0[i] stops at the first 0 or at the slice's end.  A
\* scan through a raw pointer (wcslen) would go one element further, and on.
len_with_z_reads_unchecked(d) ==
  IF \E i \in 1..Len(d) : d[i] = 0 THEN len_with_z(d) ELSE Len(d) + 1
len_with_z_reads(d) ==
  IF \E i \in 1..Len(d) : d[i] = 0 THEN len_with_z(d) ELSE Len(d)

\* impl IntoParameterString for &U16ZErasedLength.
Erased_into_parameter_string(m) ==
  LET n == len_with_z(m[CallerBuf].data)
  IN  IF n = 0 THEN Conv(FALSE, NoPS, m)
      ELSE Conv(TRUE, [buf |-> CallerBuf, len |-> n, backing |-> 0,
                       src |-> "input"], m)

\* impl IntoParameterString for &OwnedString: the whole box, borrowed.
Owned_into_parameter_string(o, m) ==
  Conv(TRUE, [buf |-> o.buf, len |-> Len(m[o.buf].data), backing |-> 0,
              src |-> "own"], m)

\* The values a call can take as `self`.
Selves == {"input", "ps", "kl", "own"}
Available(s) ==
  CASE s = "input" -> input.alive
    [] s = "ps" -> ps.buf # 0 /\ kl.src # "ps"
    [] s = "kl" -> kl.buf # 0
    [] s = "own" -> own.buf # 0

into_parameter_string(s, m) ==
  CASE s = "input" /\ input.kind = "str" -> str_into_parameter_string(input.text, m)
    [] s = "input" /\ input.kind = "pstr" -> PStr_into_parameter_string(m)
    [] s = "input" /\ input.kind = "path" -> Path_into_parameter_string(input.units, m)
    [] s = "input" /\ input.kind = "erased" -> Erased_into_parameter_string(m)
    [] s = "ps" -> Conv(TRUE, ps, m)
    [] s = "kl" -> Known_into_parameter_string(kl, m)
    [] s = "own" -> Owned_into_parameter_string(own, m)

\* What a panic inside a conversion of `self` is about.
ConvPanic(s) == IF input.kind = "path" THEN "nul" ELSE "unterminated"

\* `self` is taken by value: a ParameterString or U16ZKnownLength is moved in.
PsAfter(s) == IF s = "ps" THEN NoPS ELSE ps
KlAfter(s) == IF s = "kl" THEN NoKL ELSE kl

Panic(why) == [ghost EXCEPT !.panic = why]
\* A conversion of an erased-length `self` scans its slice: did the scan read
\* an element the slice does not have?
Overrun(s, m) ==
  /\ s = "input" /\ input.kind = "erased"
  /\ len_with_z_reads(m[CallerBuf].data) > Len(m[CallerBuf].data)
Scanned(g, s, m) == [g EXCEPT !.overrun = @ \/ Overrun(s, m)]
Running == ghost.panic = "none"
CanAlloc == FreeIds(mem) # {}

\* ----------------------------------------------------------------- Init
Inputs ==
  {[kind |-> "str", text |-> t, units |-> <<>>, alive |-> TRUE] : t \in Texts}
  \cup {[kind |-> "pstr", text |-> t, units |-> <<>>, alive |-> TRUE] : t \in Literals}
  \cup {[kind |-> "path", text |-> <<>>, units |-> u, alive |-> TRUE] : u \in UnitSeqs}
  \cup {[kind |-> "erased", text |-> <<>>, units |-> u, alive |-> TRUE] : u \in UnitSeqs}

InitMem(i) ==
  [b \in Bufs |->
     IF b # CallerBuf THEN UnusedBuf
     ELSE CASE i.kind = "pstr" -> [data |-> pstr(i.text), st |-> "static"]
            [] i.kind = "erased" -> [data |-> i.units, st |-> "live"]
            [] OTHER -> [data |-> <<>>, st |-> "live"]]

NoGhost == [panic |-> "none", released |-> FALSE, badRead |-> FALSE, overrun |-> FALSE]
NoHdr == [st |-> "uninit", ptr |-> 0, len |-> 0]

InitStr ==
  /\ input \in Inputs
  /\ mem = InitMem(input)
  /\ ps = NoPS /\ kl = NoKL /\ own = NoOwn
  /\ hdr = NoHdr /\ ovl = NoOvl /\ pw = NoPw
  /\ decoded = NoDecoded
  /\ ghost = NoGhost

\* -------------------------------------------------------------- actions
\* let p = s.into_parameter_string(pool);
IntoParameterStringCall ==
  \E s \in Selves \ {"ps"} :
    /\ Running /\ Available(s) /\ CanAlloc /\ ps.buf = 0
    /\ LET r == into_parameter_string(s, mem)
       IN  IF r.ok
           THEN /\ ps' = r.ps /\ mem' = r.mem /\ kl' = KlAfter(s)
                /\ ghost' = Scanned(ghost, s, mem)
           ELSE /\ ghost' = Scanned(Panic(ConvPanic(s)), s, mem)
                /\ UNCHANGED <<ps, mem, kl>>
    /\ UNCHANGED <<input, own, hdr, ovl, pw, decoded>>

\* let k = p.u16z_view();   (borrows p)
U16zView ==
  /\ Running /\ ps.buf # 0 /\ kl.buf = 0
  /\ kl' = [buf |-> ps.buf, len |-> ps.len, src |-> "ps"]
  /\ UNCHANGED <<input, mem, ps, own, hdr, ovl, pw, decoded, ghost>>

\* let k = erased.find_length();
FindLength ==
  /\ Running /\ input.kind = "erased" /\ input.alive /\ kl.buf = 0
  /\ LET n == len_with_z(mem[CallerBuf].data)
     IN  IF n = 0
         THEN ghost' = Scanned(Panic("unterminated"), "input", mem) /\ UNCHANGED kl
         ELSE kl' = [buf |-> CallerBuf, len |-> n, src |-> "input"]
              /\ ghost' = Scanned(ghost, "input", mem)
  /\ UNCHANGED <<input, mem, ps, own, hdr, ovl, pw, decoded>>

\* U16ZKnownLength::to_owned: clone the slice into a new box.
to_owned(k, m) == [own |-> [buf |-> NewId(m)], mem |-> Alloc(m, View(m, k.buf, k.len))]

\* let o = k.to_owned();
KnownToOwned ==
  /\ Running /\ kl.buf # 0 /\ own.buf = 0 /\ CanAlloc
  /\ own' = to_owned(kl, mem).own
  /\ mem' = to_owned(kl, mem).mem
  /\ UNCHANGED <<input, ps, kl, hdr, ovl, pw, decoded, ghost>>

\* OwnedString::new on the ParameterString p of the conversion: an owned
\* backing is moved in, a borrowed view is cloned.
OwnedString_new_aliasing(p, m) == [own |-> [buf |-> p.buf], mem |-> m]
OwnedString_new(p, m) ==
  IF p.backing # 0 THEN [own |-> [buf |-> p.backing], mem |-> m]
  ELSE [own |-> [buf |-> NewId(m)], mem |-> Alloc(m, PsView(m, p))]

\* let o = OwnedString::new(s, pool);
OwnedStringNew ==
  \E s \in Selves \ {"own"} :
    /\ Running /\ Available(s) /\ CanAlloc /\ own.buf = 0
    /\ LET r == into_parameter_string(s, mem)
       IN  IF r.ok
           THEN /\ own' = OwnedString_new(r.ps, r.mem).own
                /\ mem' = OwnedString_new(r.ps, r.mem).mem
                /\ ps' = PsAfter(s) /\ kl' = KlAfter(s)
                /\ ghost' = Scanned(ghost, s, mem)
           ELSE /\ ghost' = Scanned(Panic(ConvPanic(s)), s, mem)
                /\ UNCHANGED <<own, mem, ps, kl>>
    /\ UNCHANGED <<input, hdr, ovl, pw, decoded>>

\* impl ToString for OwnedString: split_last drops the terminator, the rest
\* goes through String::from_utf16(..).unwrap().
split_last(d) == SubSeq(d, 1, Len(d) - 1)
OwnedString_to_string(d) == from_utf16(split_last(d))

\* let t = o.to_string();
OwnedToString ==
  /\ Running /\ own.buf # 0
  /\ LET r == OwnedString_to_string(mem[own.buf].data)
     IN  IF r.ok
         THEN decoded' = [st |-> "ok", val |-> r.val, of |-> "own"]
              /\ UNCHANGED ghost
         ELSE ghost' = Panic("utf16") /\ UNCHANGED decoded
  /\ UNCHANGED <<input, mem, ps, kl, own, hdr, ovl, pw>>

\* impl ToString for PStr: U16CStr::from_slice_with_nul_unchecked(self.0)
\* takes the slice as it is, its last unit being the terminator, and
\* to_string().unwrap() decodes the units before it.
PStr_to_string_with_nul(d) == from_utf16(d)
PStr_to_string(d) == from_utf16(SubSeq(d, 1, Len(d) - 1))

\* let t = pstr!(L).to_string();
PStrToString ==
  /\ Running /\ input.kind = "pstr"
  /\ LET r == PStr_to_string(mem[CallerBuf].data)
     IN  IF r.ok
         THEN decoded' = [st |-> "ok", val |-> r.val, of |-> "pstr"]
              /\ UNCHANGED ghost
         ELSE ghost' = Panic("utf16") /\ UNCHANGED decoded
  /\ UNCHANGED <<input, mem, ps, kl, own, hdr, ovl, pw>>

\* impl Debug for OwnedString: the same split_last and from_utf16(..).unwrap()
\* as to_string, written to the formatter.
OwnedString_fmt(d) == from_utf16(split_last(d))

\* println!("{:?}", o);
DebugOwned ==
  /\ Running /\ own.buf # 0
  /\ LET r == OwnedString_fmt(mem[own.buf].data)
     IN  IF r.ok
         THEN decoded' = [st |-> "ok", val |-> r.val, of |-> "own_debug"]
              /\ UNCHANGED ghost
         ELSE ghost' = Panic("utf16") /\ UNCHANGED decoded
  /\ UNCHANGED <<input, mem, ps, kl, own, hdr, ovl, pw>>

\* impl Debug for U16ZErasedLength: len_with_z() - 1 units from the start,
\* through String::from_utf16(..).unwrap().  [ok, why, val]
U16ZErasedLength_fmt(d) ==
  LET n == len_with_z(d)
      r == from_utf16(SubSeq(d, 1, n - 1))
  IN  IF n = 0 THEN [ok |-> FALSE, why |-> "unterminated", val |-> <<>>]
      ELSE IF ~r.ok THEN [ok |-> FALSE, why |-> "utf16", val |-> <<>>]
      ELSE [ok |-> TRUE, why |-> "none", val |-> r.val]

\* println!("{:?}", erased);
DebugErased ==
  /\ Running /\ input.kind = "erased" /\ input.alive
  /\ LET r == U16ZErasedLength_fmt(mem[CallerBuf].data)
     IN  IF r.ok
         THEN decoded' = [st |-> "ok", val |-> r.val, of |-> "erased_debug"]
              /\ ghost' = Scanned(ghost, "input", mem)
         ELSE ghost' = Scanned(Panic(r.why), "input", mem) /\ UNCHANGED decoded
  /\ UNCHANGED <<input, mem, ps, kl, own, hdr, ovl, pw>>

\* ------------------------------------------------------------ trampoline
\* WindowsCreateStringReference(ptr, len, header, out): refuses (E_INVALIDARG,
\* E_POINTER, ...) a null pointer or a string with no 0 at ptr[len], and may
\* refuse for reasons of its own; else it fills the header with {ptr, len} and
\* hands out a reference to the header, NULL standing for the empty string.
WindowsCreateStringReference(m, ptr, len, refuse) ==
  IF refuse \/ ptr = 0 \/ len >= Len(m[ptr].data) THEN [ok |-> FALSE, hdr |-> NoHdr, h |-> 0]
  ELSE IF m[ptr].data[len + 1] # 0 THEN [ok |-> FALSE, hdr |-> NoHdr, h |-> 0]
  ELSE [ok |-> TRUE, hdr |-> [st |-> "init", ptr |-> ptr, len |-> len],
        h |-> IF len = 0 THEN 0 ELSE 1]

\* parameter_string.0.len() as u32 - 1.  On an empty view the subtraction
\* wraps to u32::MAX in a release build; the largest integer of the model
\* checker stands for it (no buffer is that long).
HstringLen(p) == IF p.len >= 1 THEN p.len - 1 ELSE 2147483647

\* ICantBelieveItsNotHString::from_fastpass_hstring: the HSTRING is transmuted
\* into the overlay's first field, so no HSTRING is left to drop.
from_fastpass_hstring_dropping(h, backing, s) ==
  [ovl |-> [st |-> "live", h |-> h, backing |-> backing, self |-> s, used |-> FALSE],
   drops |-> TRUE]
from_fastpass_hstring(h, backing, s) ==
  [ovl |-> [st |-> "live", h |-> h, backing |-> backing, self |-> s, used |-> FALSE],
   drops |-> FALSE]

\* into_hstring_trampoline<'h, 'r: 'a + 'h>: 'r outlives the header and the
\* source instead of being outlived by them, so the returned overlay holds
\* no borrow of either as far as the borrow checker knows.
OverlayBorrows(what) == FALSE
OverlayPins(what) == ovl.st = "live" /\ OverlayBorrows(what)

\* let hstr = unsafe { s.into_hstring_trampoline(&mut header) };
IntoHstringTrampoline ==
  \E s \in Selves, refuse \in BOOLEAN :
    /\ Running /\ Available(s) /\ CanAlloc
    /\ ovl.st = "none" /\ hdr.st = "uninit"
    /\ LET r == into_parameter_string(s, mem)
           w == WindowsCreateStringReference(r.mem, r.ps.buf, HstringLen(r.ps), refuse)
           f == from_fastpass_hstring(w.h, r.ps.backing, s)
       IN  IF ~r.ok
           THEN /\ ghost' = Scanned(Panic(ConvPanic(s)), s, mem)
                /\ UNCHANGED <<mem, ps, kl, hdr, ovl>>
           ELSE IF ~w.ok
           THEN \* unwrap() panics: parameter_string is dropped by the
                \* unwinding, the MaybeUninit<HSTRING> is not
                /\ ghost' = Scanned(Panic("create_ref"), s, mem)
                /\ mem' = Free(r.mem, r.ps.backing)
                /\ ps' = PsAfter(s) /\ kl' = KlAfter(s)
                /\ UNCHANGED <<hdr, ovl>>
           ELSE /\ hdr' = w.hdr
                /\ ovl' = f.ovl
                /\ ghost' = Scanned([ghost EXCEPT !.released = @ \/ f.drops], s, mem)
                /\ mem' = r.mem
                /\ ps' = PsAfter(s) /\ kl' = KlAfter(s)
    /\ UNCHANGED <<input, own, pw, decoded>>

\* Reading a fast-pass HSTRING goes through its header to the buffer the
\* header points at; the NULL HSTRING (empty string) reads nothing.
HstringReadOk(m, hd, o) == o.h = 0 \/ (hd.st = "init" /\ Readable(m, hd.ptr))

\* IntoParam for &ICantBelieveItsNotHString: Param::Borrowed(self.as_hstring()).
into_param == "Borrowed"

\* Uri::CreateUri(&hstr): the callee reads the string, then the Param is
\* dropped; only an owned Param releases its HSTRING.
PassAsParam ==
  /\ Running /\ ovl.st = "live"
  /\ ovl' = [ovl EXCEPT !.used = TRUE]
  /\ ghost' = [ghost EXCEPT !.badRead = @ \/ ~HstringReadOk(mem, hdr, ovl),
                            !.released = @ \/ into_param = "Owned"]
  /\ UNCHANGED <<input, mem, ps, kl, own, hdr, pw, decoded>>

\* println!("{:?}", hstr): formats through as_hstring(), by reference.
DebugOverlay ==
  /\ Running /\ ovl.st = "live"
  /\ ovl' = [ovl EXCEPT !.used = TRUE]
  /\ ghost' = [ghost EXCEPT !.badRead = @ \/ ~HstringReadOk(mem, hdr, ovl)]
  /\ UNCHANGED <<input, mem, ps, kl, own, hdr, pw, decoded>>

\* The overlay has no Drop impl: dropping it drops its fields, a reference
\* and the Option<Box<[u16]>> backing.
DropOverlayKeepingBacking(o, m) == m
DropOverlayFields(o, m) == Free(m, o.backing)
DropOverlay ==
  /\ Running /\ ovl.st = "live"
  /\ mem' = DropOverlayFields(ovl, mem)
  /\ ovl' = [ovl EXCEPT !.st = "dropped"]
  /\ UNCHANGED <<input, ps, kl, own, hdr, pw, decoded, ghost>>

\* ------------------------------------------------ into_unsafe_const_pwzstr
\* The default method converts, takes the view's pointer and returns: the
\* ParameterString, a local, is dropped on the way out.  &U16ZErasedLength
\* overrides it with the slice's own pointer, without a scan.
into_unsafe_const_pwzstr(s, m) ==
  IF s = "input" /\ input.kind = "erased"
  THEN [ok |-> TRUE, ptr |-> CallerBuf, mem |-> m]
  ELSE LET r == into_parameter_string(s, m)
       IN  [ok |-> r.ok, ptr |-> r.ps.buf, mem |-> Free(r.mem, r.ps.backing)]

\* let p = unsafe { s.into_unsafe_const_pwzstr() };
IntoUnsafeConstPwzstr ==
  \E s \in Selves :
    /\ Running /\ Available(s) /\ CanAlloc /\ pw.st = "none"
    /\ LET r == into_unsafe_const_pwzstr(s, mem)
       IN  IF r.ok
           THEN /\ pw' = [st |-> "some", buf |-> r.ptr, self |-> s]
                /\ mem' = r.mem
                /\ ps' = PsAfter(s) /\ kl' = KlAfter(s)
                /\ UNCHANGED ghost
           ELSE /\ ghost' = Panic(ConvPanic(s))
                /\ UNCHANGED <<pw, mem, ps, kl>>
    /\ UNCHANGED <<input, own, hdr, ovl, decoded>>

\* ---------------------------------------------------------- scope exits
\* A value goes out of scope when nothing the borrow checker tracks still
\* borrows from it.
DropParameterString ==
  /\ Running /\ ps.buf # 0 /\ kl.src # "ps"
  /\ mem' = Free(mem, ps.backing)
  /\ ps' = NoPS
  /\ UNCHANGED <<input, kl, own, hdr, ovl, pw, decoded, ghost>>

DropKnownLength ==
  /\ Running /\ kl.buf # 0
  /\ kl' = NoKL
  /\ UNCHANGED <<input, mem, ps, own, hdr, ovl, pw, decoded, ghost>>

DropOwnedString ==
  /\ Running /\ own.buf # 0 /\ ps.src # "own" /\ kl.src # "own"
  /\ ~(OverlayPins("self") /\ ovl.self = "own")
  /\ mem' = Free(mem, own.buf)
  /\ own' = NoOwn
  /\ UNCHANGED <<input, ps, kl, hdr, ovl, pw, decoded, ghost>>

\* The header is a local of the caller: MaybeUninit<HSTRING_HEADER>.
DropHeader ==
  /\ Running /\ hdr.st = "init" /\ ~OverlayPins("header")
  /\ hdr' = [hdr EXCEPT !.st = "dead"]
  /\ UNCHANGED <<input, mem, ps, kl, own, ovl, pw, decoded, ghost>>

\* The String, PathBuf or u16 buffer behind the input goes out of scope; a
\* pstr! literal is static and never does.
DropInput ==
  /\ Running /\ input.alive /\ input.kind # "pstr"
  /\ ps.src # "input" /\ kl.src # "input"
  /\ ~(OverlayPins("self") /\ ovl.self = "input")
  /\ input' = [input EXCEPT !.alive = FALSE]
  /\ mem' = Free(mem, CallerBuf)
  /\ UNCHANGED <<ps, kl, own, hdr, ovl, pw, decoded, ghost>>

\* ---------------------------------------------------------- release pools
\* ReleasePool tokens are numbered in the order they are created.  On macOS a
\* ReleasePool wraps an AutoreleasePool, which pushes onto the thread's
\* autorelease-pool stack of the Objective-C runtime; on Windows it is a unit
\* struct.
VARIABLES
  platform,     \* "windows" or "macos": the cfg(target_os) of the build
  pools,        \* token -> [st, kind, drops]
  nativeStack,  \* the runtime's pool stack (macOS), oldest first
  frames,       \* the autoreleasepool(f) calls in progress, outermost first
  unwinding,    \* a panic is unwinding out of the innermost closure
  poolGhost     \* history: [ooo, nested, fault, panics]

Tokens == 1..MaxPools
NoPool == [st |-> "unused", kind |-> "none", drops |-> 0]
Held == {t \in Tokens : pools[t].st = "held"}
NextToken == Cardinality({t \in Tokens : pools[t].st # "unused"}) + 1
Newest(S) == CHOOSE t \in S : \A u \in S : u <= t

RECURSIVE SortedSeq(_)
SortedSeq(S) ==
  IF S = {} THEN <<>> ELSE SortedSeq(S \ {Newest(S)}) \o <<Newest(S)>>

\* ReleasePool::new: ReleasePool(AutoreleasePool::new()) on macOS, the unit
\* value on Windows.
ReleasePool_new(t, stack) ==
  IF platform = "macos" THEN Append(stack, t) ELSE stack

\* objc_autoreleasePoolPop(token): pops the token's pool and every pool
\* pushed after it.
PopTo(t, stack) ==
  LET i == CHOOSE k \in 1..Len(stack) : stack[k] = t
  IN  SubSeq(stack, 1, i - 1)

\* Dropping a ReleasePool drops its field: the AutoreleasePool pops itself on
\* macOS; there is nothing to drop on Windows.
ReleasePool_drop_forgetting(t, stack) == stack
ReleasePool_drop(t, stack) ==
  IF platform = "macos" /\ t \in Range(stack) THEN PopTo(t, stack) ELSE stack

\* A pop of a token the runtime no longer has (an outer pool was popped
\* first) is undefined: the runtime may abort with a report, or not notice.
Dangling(t) == platform = "macos" /\ t \notin Range(nativeStack)

DropToken(t, faults, panicking) ==
  /\ pools' = [pools EXCEPT ![t] = [@ EXCEPT !.st = "released", !.drops = @ + 1]]
  /\ nativeStack' = ReleasePool_drop(t, nativeStack)
  /\ poolGhost' = [poolGhost EXCEPT
                     !.ooo = @ \/ t # Newest(Held),
                     !.nested = @ /\ (pools[t].kind = "scoped" =>
                          t = Newest({u \in Held : pools[u].kind = "scoped"})),
                     !.fault = @ \/ (faults /\ Dangling(t)),
                     !.panics = @ \/ panicking]

\* let p = unsafe { ReleasePool::new() };
ReleasePoolNew ==
  /\ ~unwinding /\ NextToken <= MaxPools
  /\ pools' = [pools EXCEPT ![NextToken] = [st |-> "held", kind |-> "raw", drops |-> 0]]
  /\ nativeStack' = ReleasePool_new(NextToken, nativeStack)
  /\ UNCHANGED <<platform, frames, unwinding, poolGhost>>

\* drop(p): any pool the caller holds; the order is the caller's (unsafe) duty.
DropReleasePool ==
  \E t \in Held, faults \in BOOLEAN :
    /\ ~unwinding /\ pools[t].kind = "raw"
    /\ DropToken(t, faults, FALSE)
    /\ UNCHANGED <<platform, frames, unwinding>>

\* autoreleasepool(f): let a = unsafe { ReleasePool::new() }; then f(&a) runs.
AutoreleasepoolEnter ==
  /\ ~unwinding /\ NextToken <= MaxPools
  /\ pools' = [pools EXCEPT ![NextToken] = [st |-> "held", kind |-> "scoped", drops |-> 0]]
  /\ nativeStack' = ReleasePool_new(NextToken, nativeStack)
  /\ frames' = Append(frames, NextToken)
  /\ UNCHANGED <<platform, unwinding, poolGhost>>

\* autoreleasepool's `a` is a local: it is dropped when the call is left,
\* by a return of f as by a panic unwinding through it.
LeakOnUnwind(how) == how = "return"
DropsOnExit(how) == how \in {"return", "unwind"}

ExitFrame(how, faults) ==
  LET t == frames[Len(frames)]
  IN  /\ frames' = SubSeq(frames, 1, Len(frames) - 1)
      /\ IF DropsOnExit(how) THEN DropToken(t, faults, how = "unwind")
         ELSE /\ poolGhost' = [poolGhost EXCEPT !.panics = @ \/ how = "unwind"]
              /\ UNCHANGED <<pools, nativeStack>>

\* f returns (at its end or early): `a` goes out of scope.
AutoreleasepoolReturn ==
  \E faults \in BOOLEAN :
    /\ ~unwinding /\ frames # <<>>
    /\ ExitFrame("return", faults)
    /\ UNCHANGED <<platform, unwinding>>

\* f panics: the unwinding leaves the innermost autoreleasepool call, then
\* the ones around it, until it is caught.
AutoreleasepoolUnwind ==
  \E faults \in BOOLEAN :
    /\ frames # <<>>
    /\ ExitFrame("unwind", faults)
    /\ unwinding' = TRUE
    /\ UNCHANGED platform

\* catch_unwind, or the unwinding reaching the thread's entry.
CatchUnwind ==
  /\ unwinding
  /\ unwinding' = FALSE
  /\ UNCHANGED <<platform, pools, nativeStack, frames, poolGhost>>

\* ------------------------------------------------- NSString (macOS flavour)
\* src/string/macos.rs: a &str is lent to an NSString (initWithBytesNoCopy,
\* freeWhenDone: NO), a String is given to one (initWithBytesNoCopy with a
\* deallocator block that owns the String).  The Objective-C runtime counts
\* the references to the NSString and deallocates it at the last release.
VARIABLES
  string,       \* the Rust String: [text, st], st: "held", "captured", "dropped"
  bytes,        \* the String's heap buffer: [st, frees, by]
  nsstring,     \* the NSString over the bytes: [st, rc, path]
  deallocator,  \* the Deallocator block: [st, calls]
  cells,        \* StrongLifetimeCell / StrongCell values Rust holds
  macGhost      \* history: [uaf, read]

NoString == [text |-> <<>>, st |-> "held"]
LiveBytes == [st |-> "live", frees |-> 0, by |-> {}]
NoNSString == [st |-> "none", rc |-> 0, path |-> "none"]
NoDeallocator == [st |-> "none", calls |-> 0]
NoMacGhost == [uaf |-> FALSE, read |-> <<>>]

\* Dropping a String frees its buffer.
DropStringBytes(b, who) == [st |-> "freed", frees |-> b.frees + 1, by |-> b.by \cup {who}]

\* impl IntoParameterString<'static> for String, into_nsstring: `self` is
\* moved into the closure of the Deallocator, so the caller no longer has it
\* and nothing drops it on return; the block is registered with
\* initWithBytesNoCopy:length:encoding:deallocator: and the NSString comes back
\* retained once.  The borrowing variant lends the bytes as the &str path
\* does and lets `self` go at the end of the call.
String_into_nsstring_dropping(str, b) ==
  [string |-> [str EXCEPT !.st = "dropped"],
   bytes |-> DropStringBytes(b, "into_nsstring"),
   deallocator |-> [st |-> "registered", calls |-> 0],
   nsstring |-> [st |-> "alive", rc |-> 1, path |-> "String"]]
String_into_nsstring(str, b) ==
  [string |-> [str EXCEPT !.st = "captured"],
   bytes |-> b,
   deallocator |-> [st |-> "registered", calls |-> 0],
   nsstring |-> [st |-> "alive", rc |-> 1, path |-> "String"]]

\* let c = owned_text.into_nsstring(pool);
StringIntoNsstring ==
  /\ string.st = "held" /\ nsstring.st = "none"
  /\ LET r == String_into_nsstring(string, bytes)
     IN  /\ string' = r.string /\ bytes' = r.bytes
         /\ deallocator' = r.deallocator /\ nsstring' = r.nsstring
  /\ cells' = 1
  /\ UNCHANGED macGhost

\* impl IntoParameterString for &str, into_nsstring: from_bytes_no_copy, the
\* bytes stay the caller's (freeWhenDone: false) and no block is registered.
str_into_nsstring == [st |-> "alive", rc |-> 1, path |-> "str"]

\* let c = text.as_str().into_nsstring(pool);
StrIntoNsstring ==
  /\ string.st = "held" /\ nsstring.st = "none"
  /\ nsstring' = str_into_nsstring
  /\ cells' = 1
  /\ UNCHANGED <<string, bytes, deallocator, macGhost>>

\* -[NSString release] at reference count 1: the runtime deallocates the
\* string and, if a deallocator block was registered, invokes it; the block's
\* closure is `|_,_| drop(self)`.
Deallocator_invoke(d, str, b) ==
  IF d.st = "none" THEN [deallocator |-> d, string |-> str, bytes |-> b]
  ELSE [deallocator |-> [st |-> "invoked", calls |-> d.calls + 1],
        string |-> [str EXCEPT !.st = "dropped"],
        bytes |-> DropStringBytes(b, "deallocator")]

\* A StrongLifetimeCell or StrongCell goes out of scope: release.
DropCell ==
  /\ cells >= 1 /\ nsstring.st = "alive"
  /\ cells' = cells - 1
  /\ IF nsstring.rc > 1
     THEN /\ nsstring' = [nsstring EXCEPT !.rc = @ - 1]
          /\ UNCHANGED <<string, bytes, deallocator>>
     ELSE LET r == Deallocator_invoke(deallocator, string, bytes)
          IN  /\ nsstring' = [nsstring EXCEPT !.rc = 0, !.st = "deallocated"]
              /\ deallocator' = r.deallocator
              /\ string' = r.string /\ bytes' = r.bytes
  /\ UNCHANGED macGhost

\* Another strong reference to the same NSString (a retain, as -copy of an
\* immutable string that owns its bytes gives).
RetainCell ==
  /\ cells >= 1 /\ cells < MaxCells /\ nsstring.st = "alive"
  /\ cells' = cells + 1
  /\ nsstring' = [nsstring EXCEPT !.rc = @ + 1]
  /\ UNCHANGED <<string, bytes, deallocator, macGhost>>

\* c.to_string(): the runtime reads the bytes behind the NSString.
ReadCell ==
  /\ cells >= 1 /\ nsstring.st = "alive"
  /\ macGhost' = [uaf |-> macGhost.uaf \/ bytes.st # "live",
                  read |-> IF bytes.st = "live" THEN string.text ELSE <<>>]
  /\ UNCHANGED <<string, bytes, nsstring, deallocator, cells>>

\* The String the caller still holds goes out of scope, once no NSString
\* borrows from it (the cell's lifetime 'a is the &str's).
DropString ==
  /\ string.st = "held"
  /\ ~(nsstring.st = "alive" /\ nsstring.path = "str")
  /\ string' = [string EXCEPT !.st = "dropped"]
  /\ bytes' = DropStringBytes(bytes, "caller")
  /\ UNCHANGED <<nsstring, deallocator, cells, macGhost>>

\* ------------------------------------------- ParameterString: Eq and Hash
VARIABLE cmp  \* the last comparison: [st, eq, hashEq, left, right, lview, rview]
NoCmp == [st |-> "none", eq |-> FALSE, hashEq |-> FALSE,
          left |-> "none", right |-> "none", lview |-> <<>>, rview |-> <<>>]

\* impl PartialEq for ParameterString: self.0 == other.0, the slices' lengths
\* and then their elements.  A derived PartialEq would compare the backing
\* boxes too.
ParameterString_eq_derived(m, p, q) ==
  /\ p.len = q.len
  /\ \A i \in 1..p.len : m[p.buf].data[i] = m[q.buf].data[i]
  /\ (p.backing = 0) = (q.backing = 0)
ParameterString_eq(m, p, q) ==
  /\ p.len = q.len
  /\ \A i \in 1..p.len : m[p.buf].data[i] = m[q.buf].data[i]

\* impl Hash for ParameterString: self.0.hash(state), which writes the slice's
\* length and then its elements to the Hasher.  The value is what the Hasher
\* was fed: equal feeds give equal hashes with every Hasher.
ParameterString_hash(m, p) == <<p.len>> \o [i \in 1..p.len |-> m[p.buf].data[i]]

Backing(p) == IF p.backing = 0 THEN "absent" ELSE "owned"

\* p == other.into_parameter_string(pool), and the same two hashed: `other` is
\* something at hand or a further &str; the temporary is dropped afterwards.
ParameterStringEq ==
  \E s \in (Selves \ {"ps"}) \cup {"text"}, t \in Texts :
    /\ Running /\ ps.buf # 0 /\ CanAlloc
    /\ s # "text" => (t = <<>> /\ Available(s))
    /\ LET r == IF s = "text" THEN str_into_parameter_string(t, mem)
                ELSE into_parameter_string(s, mem)
       IN  /\ r.ok
           /\ cmp' = [st |-> "done",
                      eq |-> ParameterString_eq(r.mem, ps, r.ps),
                      hashEq |-> ParameterString_hash(r.mem, ps)
                                   = ParameterString_hash(r.mem, r.ps),
                      left |-> Backing(ps), right |-> Backing(r.ps),
                      lview |-> PsView(r.mem, ps), rview |-> PsView(r.mem, r.ps)]
           /\ mem' = Free(r.mem, r.ps.backing)
    /\ UNCHANGED <<input, ps, kl, own, hdr, ovl, pw, decoded, ghost>>

\* ------------------------------------------------------------------ Error
\* src/error: Error wraps one native error value, a WIN32_ERROR on Windows
\* and a StrongCell<NSError> on macOS.
VARIABLES
  lastError,  \* the thread's last native error (GetLastError), or one at hand
  error,      \* the Error: [st, inner], st: "none", "wrapped", "unwrapped"
  native,     \* what into_win32 / into_nserror gave back: [st, val]
  shown       \* the outcome of the last Display: [st, out]

ErrorCodes == 0..MaxErrorCode
NoError == [st |-> "none", inner |-> 0]
NoNative == [st |-> "none", val |-> 0]
NoShown == [st |-> "none", out |-> <<>>]

\* The native runtime's rendering of an error value (Display for WIN32_ERROR,
\* NSError's description).
Describe(e) == <<"error", e>>

\* Error::from_win32 / from_nserror and into_win32 / into_nserror.
Error_from_native(e) == [st |-> "wrapped", inner |-> e]
Error_into_native(w) == [st |-> "some", val |-> w.inner]

\* The native side reports an error: SetLastError, or an NSError handed back.
NativeFails ==
  \E e \in ErrorCodes :
    /\ lastError' = e
    /\ UNCHANGED <<error, native, shown>>

\* let e = Error::from_win32(code);  Error::win32_last();  Error::from_nserror(n);
ErrorWrap ==
  /\ shown.st # "overflow"
  /\ error' = Error_from_native(lastError)
  /\ UNCHANGED <<lastError, native, shown>>

\* let code = e.into_win32();  e.into_nserror();
ErrorUnwrap ==
  /\ shown.st # "overflow" /\ error.st = "wrapped"
  /\ native' = Error_into_native(error)
  /\ error' = [error EXCEPT !.st = "unwrapped"]
  /\ UNCHANGED <<lastError, shown>>

\* impl Display for Error: fmt is f.write_fmt(format_args!("{}", self)), and
\* `self` there is the &Error: Display for &Error forwards to this same fmt.
\* Each call takes a stack frame and makes the next call before it writes
\* anything; with no frame left the process dies of stack overflow.
RECURSIVE Error_fmt(_, _)
Error_fmt(e, room) ==
  IF room = 0 THEN [st |-> "overflow", out |-> <<>>]
  ELSE Error_fmt(e, room - 1)

\* println!("{}", e);
ErrorDisplay ==
  /\ shown.st # "overflow" /\ error.st = "wrapped"
  /\ shown' = Error_fmt(error, MaxStack)
  /\ UNCHANGED <<lastError, error, native>>

errVars == <<lastError, error, native, shown>>
NoErr ==
  /\ lastError = 0 /\ error = NoError /\ native = NoNative /\ shown = NoShown

strVars == <<input, mem, ps, kl, own, hdr, ovl, pw, decoded, ghost>>
poolVars == <<platform, pools, nativeStack, frames, unwinding, poolGhost>>
macVars == <<string, bytes, nsstring, deallocator, cells, macGhost>>
vars == <<strVars, poolVars, macVars, cmp, errVars>>

NoMac ==
  /\ string = NoString /\ bytes = LiveBytes /\ nsstring = NoNSString
  /\ deallocator = NoDeallocator /\ cells = 0 /\ macGhost = NoMacGhost

\* Nothing of the macOS strings, the comparisons or the errors is in use.
NoOthers == NoMac /\ cmp = NoCmp /\ NoErr

NoPoolGhost == [ooo |-> FALSE, nested |-> TRUE, fault |-> FALSE, panics |-> FALSE]
NoPools ==
  /\ pools = [t \in Tokens |-> NoPool]
  /\ nativeStack = <<>> /\ frames = <<>> /\ unwinding = FALSE
  /\ poolGhost = NoPoolGhost

\* Conversions, views, owned strings and decoding (no pool is in use: the
\* Windows conversions ignore their pool argument).
Init == InitStr /\ platform = "windows" /\ NoPools /\ NoOthers
Next ==
  \/ IntoParameterStringCall /\ UNCHANGED <<poolVars, macVars, cmp, errVars>>
  \/ U16zView /\ UNCHANGED <<poolVars, macVars, cmp, errVars>>
  \/ FindLength /\ UNCHANGED <<poolVars, macVars, cmp, errVars>>
  \/ KnownToOwned /\ UNCHANGED <<poolVars, macVars, cmp, errVars>>
  \/ OwnedStringNew /\ UNCHANGED <<poolVars, macVars, cmp, errVars>>
  \/ OwnedToString /\ UNCHANGED <<poolVars, macVars, cmp, errVars>>
  \/ PStrToString /\ UNCHANGED <<poolVars, macVars, cmp, errVars>>
  \/ DebugOwned /\ UNCHANGED <<poolVars, macVars, cmp, errVars>>
  \/ DebugErased /\ UNCHANGED <<poolVars, macVars, cmp, errVars>>
  \/ DropParameterString /\ UNCHANGED <<poolVars, macVars, cmp, errVars>>
  \/ DropKnownLength /\ UNCHANGED <<poolVars, macVars, cmp, errVars>>
  \/ DropOwnedString /\ UNCHANGED <<poolVars, macVars, cmp, errVars>>
  \/ DropInput /\ UNCHANGED <<poolVars, macVars, cmp, errVars>>
Spec == Init /\ [][Next]_vars

\* The calls that hand a string to the native side: the HSTRING trampoline
\* and the raw PWSTR, over every kind of `self`.
NextFfi ==
  \/ IntoParameterStringCall /\ UNCHANGED <<poolVars, macVars, cmp, errVars>>
  \/ FindLength /\ UNCHANGED <<poolVars, macVars, cmp, errVars>>
  \/ OwnedStringNew /\ UNCHANGED <<poolVars, macVars, cmp, errVars>>
  \/ IntoHstringTrampoline /\ UNCHANGED <<poolVars, macVars, cmp, errVars>>
  \/ PassAsParam /\ UNCHANGED <<poolVars, macVars, cmp, errVars>>
  \/ DebugOverlay /\ UNCHANGED <<poolVars, macVars, cmp, errVars>>
  \/ DropOverlay /\ UNCHANGED <<poolVars, macVars, cmp, errVars>>
  \/ IntoUnsafeConstPwzstr /\ UNCHANGED <<poolVars, macVars, cmp, errVars>>
  \/ DropParameterString /\ UNCHANGED <<poolVars, macVars, cmp, errVars>>
  \/ DropKnownLength /\ UNCHANGED <<poolVars, macVars, cmp, errVars>>
  \/ DropOwnedString /\ UNCHANGED <<poolVars, macVars, cmp, errVars>>
  \/ DropHeader /\ UNCHANGED <<poolVars, macVars, cmp, errVars>>
  \/ DropInput /\ UNCHANGED <<poolVars, macVars, cmp, errVars>>
SpecFfi == Init /\ [][NextFfi]_vars

\* Erased-length views over caller buffers of up to MaxErased units: the scan
\* for the terminator and what is built on it.
ErasedInputs ==
  {[kind |-> "erased", text |-> <<>>, units |-> u, alive |-> TRUE] :
     u \in SeqsUpTo(Units, MaxErased)}
InitErased ==
  /\ input \in ErasedInputs
  /\ mem = InitMem(input)
  /\ ps = NoPS /\ kl = NoKL /\ own = NoOwn
  /\ hdr = NoHdr /\ ovl = NoOvl /\ pw = NoPw
  /\ decoded = NoDecoded
  /\ ghost = NoGhost
  /\ platform = "windows" /\ NoPools /\ NoOthers
NextErased ==
  \/ FindLength /\ UNCHANGED <<poolVars, macVars, cmp, errVars>>
  \/ IntoParameterStringCall /\ UNCHANGED <<poolVars, macVars, cmp, errVars>>
  \/ DebugErased /\ UNCHANGED <<poolVars, macVars, cmp, errVars>>
  \/ KnownToOwned /\ UNCHANGED <<poolVars, macVars, cmp, errVars>>
  \/ DebugOwned /\ UNCHANGED <<poolVars, macVars, cmp, errVars>>
  \/ DropParameterString /\ UNCHANGED <<poolVars, macVars, cmp, errVars>>
  \/ DropKnownLength /\ UNCHANGED <<poolVars, macVars, cmp, errVars>>
  \/ DropOwnedString /\ UNCHANGED <<poolVars, macVars, cmp, errVars>>
  \/ DropInput /\ UNCHANGED <<poolVars, macVars, cmp, errVars>>
SpecErased == InitErased /\ [][NextErased]_vars

\* ParameterStrings compared and hashed against each other.
NextCmp ==
  \/ IntoParameterStringCall /\ UNCHANGED <<poolVars, macVars, cmp, errVars>>
  \/ FindLength /\ UNCHANGED <<poolVars, macVars, cmp, errVars>>
  \/ OwnedStringNew /\ UNCHANGED <<poolVars, macVars, cmp, errVars>>
  \/ ParameterStringEq /\ UNCHANGED <<poolVars, macVars, errVars>>
  \/ DropParameterString /\ UNCHANGED <<poolVars, macVars, cmp, errVars>>
  \/ DropKnownLength /\ UNCHANGED <<poolVars, macVars, cmp, errVars>>
  \/ DropOwnedString /\ UNCHANGED <<poolVars, macVars, cmp, errVars>>
SpecCmp == Init /\ [][NextCmp]_vars

\* Release pools on both platforms, raw and through autoreleasepool.
InitPool ==
  /\ platform \in {"windows", "macos"} /\ NoPools /\ NoOthers
  /\ input = [kind |-> "str", text |-> <<>>, units |-> <<>>, alive |-> TRUE]
  /\ mem = InitMem(input)
  /\ ps = NoPS /\ kl = NoKL /\ own = NoOwn
  /\ hdr = NoHdr /\ ovl = NoOvl /\ pw = NoPw
  /\ decoded = NoDecoded
  /\ ghost = NoGhost
NextPool ==
  \/ ReleasePoolNew /\ UNCHANGED <<strVars, macVars, cmp, errVars>>
  \/ DropReleasePool /\ UNCHANGED <<strVars, macVars, cmp, errVars>>
  \/ AutoreleasepoolEnter /\ UNCHANGED <<strVars, macVars, cmp, errVars>>
  \/ AutoreleasepoolReturn /\ UNCHANGED <<strVars, macVars, cmp, errVars>>
  \/ AutoreleasepoolUnwind /\ UNCHANGED <<strVars, macVars, cmp, errVars>>
  \/ CatchUnwind /\ UNCHANGED <<strVars, macVars, cmp, errVars>>
SpecPool == InitPool /\ [][NextPool]_vars

\* Errors wrapped, unwrapped and displayed, on both platforms.
InitErr ==
  /\ platform \in {"windows", "macos"} /\ NoPools
  /\ lastError \in ErrorCodes
  /\ error = NoError /\ native = NoNative /\ shown = NoShown
  /\ cmp = NoCmp
  /\ string = NoString /\ bytes = LiveBytes /\ nsstring = NoNSString
  /\ deallocator = NoDeallocator /\ cells = 0 /\ macGhost = NoMacGhost
  /\ input = [kind |-> "str", text |-> <<>>, units |-> <<>>, alive |-> TRUE]
  /\ mem = InitMem(input)
  /\ ps = NoPS /\ kl = NoKL /\ own = NoOwn
  /\ hdr = NoHdr /\ ovl = NoOvl /\ pw = NoPw
  /\ decoded = NoDecoded
  /\ ghost = NoGhost
NextErr ==
  \/ NativeFails /\ UNCHANGED <<strVars, poolVars, macVars, cmp>>
  \/ ErrorWrap /\ UNCHANGED <<strVars, poolVars, macVars, cmp>>
  \/ ErrorUnwrap /\ UNCHANGED <<strVars, poolVars, macVars, cmp>>
  \/ ErrorDisplay /\ UNCHANGED <<strVars, poolVars, macVars, cmp>>
SpecErr == InitErr /\ [][NextErr]_vars

\* Strings handed to the Objective-C runtime (macOS build).
InitMac ==
  /\ string \in {[text |-> t, st |-> "held"] : t \in Texts}
  /\ bytes = LiveBytes /\ nsstring = NoNSString
  /\ deallocator = NoDeallocator /\ cells = 0 /\ macGhost = NoMacGhost
  /\ cmp = NoCmp /\ NoErr
  /\ platform = "macos" /\ NoPools
  /\ input = [kind |-> "str", text |-> <<>>, units |-> <<>>, alive |-> TRUE]
  /\ mem = InitMem(input)
  /\ ps = NoPS /\ kl = NoKL /\ own = NoOwn
  /\ hdr = NoHdr /\ ovl = NoOvl /\ pw = NoPw
  /\ decoded = NoDecoded
  /\ ghost = NoGhost
NextMac ==
  \/ StringIntoNsstring /\ UNCHANGED <<strVars, poolVars, cmp, errVars>>
  \/ StrIntoNsstring /\ UNCHANGED <<strVars, poolVars, cmp, errVars>>
  \/ RetainCell /\ UNCHANGED <<strVars, poolVars, cmp, errVars>>
  \/ ReadCell /\ UNCHANGED <<strVars, poolVars, cmp, errVars>>
  \/ DropCell /\ UNCHANGED <<strVars, poolVars, cmp, errVars>>
  \/ DropString /\ UNCHANGED <<strVars, poolVars, cmp, errVars>>
SpecMac == InitMac /\ [][NextMac]_vars

\* ================================================================ claims

\* C1: whatever text a &str holds (empty, with a NUL, outside the BMP), every
\* OwnedString derived from it decodes back, with to_string, to exactly that
\* text, and the decoding never fails.
C1_RoundTrip ==
  input.kind = "str" =>
    /\ Running
    /\ decoded.st = "ok" => decoded.val = input.text
C1_Witness ==
  /\ input.kind = "str" /\ decoded.st = "ok"
  /\ 65536 \in Range(input.text) /\ 0 \in Range(input.text)

\* C2: every ParameterString and U16ZKnownLength view is non-empty, lies
\* inside its buffer and holds a 0 within its reported length.
ViewTerminated(b, n) ==
  /\ n >= 1 /\ n <= Len(mem[b].data)
  /\ \E i \in 1..n : mem[b].data[i] = 0
C9_PStrToString ==
  input.kind = "pstr" =>
    /\ ghost.panic # "utf16"
    /\ (decoded.st = "ok" /\ decoded.of = "pstr") => decoded.val = input.text
C9_Witness ==
  /\ input.kind = "pstr" /\ decoded.st = "ok" /\ decoded.of = "pstr"
  /\ Len(decoded.val) = MaxTextLen /\ 65536 \in Range(decoded.val)

\* C3: the fast-pass HSTRING of the trampoline is never released through the
\* runtime's destruction path, whatever is done with the overlay (passing
\* it, formatting it, dropping it) and also when the create-reference call
\* panics.
C3_NeverReleased == ~ghost.released
C3_Witness == ovl.st = "dropped" /\ ovl.used /\ ovl.h # 0 /\ ovl.backing # 0

\* C4: no use of the overlay (as a parameter, formatted) reads a header that
\* went out of scope or a string buffer that was freed.
C4_NoUseAfterScope == ~ghost.badRead

\* C5: while the `self` a PWSTR was made from is alive, the PWSTR points to a
\* live buffer that holds a terminator (the terminator of an erased-length
\* slice being its maker's duty).
SelfAlive(p) ==
  CASE p.self = "input" -> input.alive
    [] p.self = "own" -> own.buf = p.buf
    [] OTHER -> FALSE
C5_PwstrLive ==
  (pw.st = "some" /\ SelfAlive(pw)) =>
    /\ Readable(mem, pw.buf)
    /\ input.kind # "erased" => 0 \in Range(mem[pw.buf].data)

\* C8: a PStr is converted in place, by into_parameter_string as inside
\* into_hstring_trampoline and into_unsafe_const_pwzstr: the heap is left as
\* it was, the view (the pointer handed out) is the static slice itself and
\* there is no owned backing.
C8_PStrZeroCopy ==
  [][input.kind = "pstr" =>
       /\ (ps.buf = 0 /\ ps'.buf # 0 /\ ps'.src = "static") =>
            /\ mem' = mem
            /\ ps'.buf = CallerBuf /\ ps'.backing = 0
            /\ PsView(mem', ps') = pstr(input.text)
       /\ (ovl.st = "none" /\ ovl'.st = "live" /\ ovl'.self = "input") =>
            /\ mem' = mem
            /\ hdr'.ptr = CallerBuf /\ ovl'.backing = 0
       /\ (pw.st = "none" /\ pw'.st = "some" /\ pw'.self = "input") =>
            /\ mem' = mem
            /\ pw'.buf = CallerBuf]_vars
C8_Witness ==
  /\ input.kind = "pstr" /\ ps.buf = CallerBuf /\ ps.src = "static"
  /\ ovl.st = "live" /\ ovl.self = "input"
  /\ pw.st = "some" /\ pw.self = "input"
  /\ LibAllocated(mem) = {}

\* C10 as stated: the view of the converted "" has length 0, a non-null
\* pointer, and a terminator inside its buffer.
EmptyStrConverted ==
  input.kind = "str" /\ input.text = <<>> /\ ps.buf # 0 /\ ps.src = "input"
C10_EmptyViewLengthZero ==
  EmptyStrConverted =>
    /\ ps.len = 0
    /\ ps.buf \in Bufs
    /\ 0 \in Range(mem[ps.buf].data)

\* C10, amended: the view of the converted "" is the terminator alone (length
\* 1); 0 is the length the trampoline hands to the runtime with it (the view's
\* length minus one); the pointer is a buffer's and the terminator is at the
\* index checked, inside the view.
C10_EmptyInput ==
  /\ EmptyStrConverted =>
       /\ ps.len = 1 /\ PsView(mem, ps) = <<0>>
       /\ ps.buf \in Bufs
       /\ HstringLen(ps) = 0
  /\ (input.kind = "str" /\ input.text = <<>> /\ hdr.st # "uninit") =>
       /\ hdr.len = 0 /\ hdr.ptr \in Bufs
C10_Witness == EmptyStrConverted /\ ovl.st = "live" /\ ovl.self = "input"

\* C6 as stated: a release of a pool that is not the newest one held is
\* reported as a failure.
C6_OutOfOrderDetected == poolGhost.ooo => poolGhost.fault

\* C6, amended: as long as every pool is released newest first, no failure is
\* reported and (macOS) the runtime's stack holds exactly the pools held, in
\* order; on Windows a release has no effect in any order, so an out-of-order
\* release is accepted like any other.
C6_LifoSucceeds ==
  /\ ~poolGhost.ooo =>
       /\ ~poolGhost.fault
       /\ platform = "macos" => nativeStack = SortedSeq(Held)
  /\ platform = "windows" => ~poolGhost.fault /\ nativeStack = <<>>
C6_Witness ==
  /\ platform = "macos" /\ ~poolGhost.ooo /\ nativeStack = <<>>
  /\ \E a, b \in Tokens :
       /\ a < b
       /\ pools[a] = [st |-> "released", kind |-> "raw", drops |-> 1]
       /\ pools[b] = [st |-> "released", kind |-> "raw", drops |-> 1]

\* C7: the pool of an autoreleasepool call is held exactly while the call is
\* in progress (so from before f runs to f's exit), it is released exactly
\* once when the call is left, by return or by unwinding, and every one of
\* these releases was of the newest such pool then held (nested calls release
\* their pools in reverse order of creation).
Scoped == {t \in Tokens : pools[t].kind = "scoped"}
C7_ScopedPools ==
  /\ \A t \in Scoped :
       /\ t \in Range(frames) <=> pools[t].st = "held"
       /\ t \in Range(frames) => pools[t].drops = 0
       /\ t \notin Range(frames) => pools[t].st = "released" /\ pools[t].drops = 1
  /\ \A i, j \in 1..Len(frames) : i < j => frames[i] < frames[j]
  /\ poolGhost.nested
  /\ (platform = "macos" /\ ~poolGhost.ooo) =>
       \A t \in Range(frames) : t \in Range(nativeStack)
C7_Witness ==
  /\ poolGhost.panics /\ ~unwinding /\ frames = <<>>
  /\ Cardinality({t \in Scoped : pools[t].st = "released"}) >= 3

\* C11: a known-length view or ParameterString made from an erased-length
\* buffer that holds a 0 starts at the buffer's start and ends with the first
\* 0 of the buffer: its length is the index of that 0 counted from one, the
\* units after it are left out, and the scan does not fail.  For
\* [104,105,0,0,0] the length is 3.
FirstZero(d, n) == n \in 1..Len(d) /\ d[n] = 0 /\ \A j \in 1..(n - 1) : d[j] # 0
C11_FirstTerminator ==
  /\ len_with_z(<<104, 105, 0, 0, 0>>) = 3
  /\ (input.kind = "erased" /\ 0 \in Range(input.units)) =>
       /\ ghost.panic # "unterminated"
       /\ (kl.buf # 0 /\ kl.src = "input") =>
            kl.buf = CallerBuf /\ FirstZero(input.units, kl.len)
       /\ (ps.buf # 0 /\ ps.src = "input") =>
            ps.buf = CallerBuf /\ ps.backing = 0 /\ FirstZero(input.units, ps.len)
C11_Witness ==
  /\ input.kind = "erased" /\ Len(input.units) = 5
  /\ kl.buf # 0 /\ kl.src = "input" /\ kl.len = 3
  /\ ps.buf # 0 /\ ps.src = "input" /\ ps.len = 3
  /\ input.units[4] = 0 /\ input.units[5] = 0

\* C12: on an erased-length buffer with no 0 in it, every step that scans for
\* the length (find_length, into_parameter_string, Debug) ends in the panic
\* "not null-terminated": no view, ParameterString, OwnedString or formatted
\* text comes out of it, and no scan, on any buffer, reads an element beyond
\* the buffer's last.
NoTerminator == input.kind = "erased" /\ 0 \notin Range(input.units)
C12_UnterminatedPanics ==
  [][/\ ~ghost'.overrun
     /\ NoTerminator =>
          /\ ps' = NoPS /\ kl' = NoKL /\ own' = NoOwn /\ decoded' = NoDecoded
          /\ input'.alive => ghost'.panic = "unterminated"]_vars
C12_Witness ==
  /\ NoTerminator /\ Len(input.units) = MaxErased
  /\ ghost.panic = "unterminated" /\ ~ghost.overrun

\* C13: on the String path the deallocation callback is the one thing that
\* frees the String's buffer: it has not run and the buffer is live for as
\* long as the NSString is alive, it has run exactly once, freeing the buffer
\* once, as soon as the runtime has deallocated the NSString, and no read
\* through the NSString finds the buffer freed.
C13_DeallocatorOnce ==
  nsstring.path = "String" =>
    /\ deallocator.calls <= 1
    /\ deallocator.calls = 1 <=> nsstring.st = "deallocated"
    /\ bytes.frees = deallocator.calls
    /\ bytes.by \subseteq {"deallocator"}
    /\ bytes.st = "live" <=> nsstring.st = "alive"
    /\ ~macGhost.uaf
C13_Witness ==
  /\ nsstring.path = "String" /\ nsstring.st = "deallocated"
  /\ deallocator = [st |-> "invoked", calls |-> 1]
  /\ bytes = [st |-> "freed", frees |-> 1, by |-> {"deallocator"}]
  /\ macGhost.read = string.text /\ Len(string.text) = MaxTextLen

\* C14: two ParameterStrings compare equal exactly when their views hold the
\* same code units, equal ones feed the Hasher the same, and so they are
\* equal with the same hash exactly when the views agree, whether a backing
\* buffer is owned on one side, on both or on neither.
C14_EqHashByView ==
  cmp.st = "done" =>
    /\ cmp.eq <=> cmp.lview = cmp.rview
    /\ cmp.lview = cmp.rview => cmp.hashEq
    /\ (cmp.eq /\ cmp.hashEq) <=> cmp.lview = cmp.rview
C14_Witness ==
  /\ cmp.st = "done" /\ cmp.eq /\ cmp.hashEq
  /\ cmp.left = "absent" /\ cmp.right = "owned" /\ Len(cmp.lview) >= 2
C14_WitnessUnequal ==
  /\ cmp.st = "done" /\ ~cmp.eq /\ Len(cmp.lview) = Len(cmp.rview)
  /\ cmp.left = "owned" /\ cmp.right = "owned"

\* The code units the conversion of the input yields, from the input alone.
ExpectedView(i) ==
  CASE i.kind = "str" -> encode_utf16(i.text) \o <<0>>
    [] i.kind = "pstr" -> encode_utf16(i.text) \o <<0>>
    [] i.kind = "path" -> i.units \o <<0>>
    [] i.kind = "erased" ->
         SubSeq(i.units, 1, CHOOSE n \in 1..Len(i.units) : FirstZero(i.units, n))

\* C15: an OwnedString made by OwnedString::new holds a live buffer of the
\* library's own, with the code units of the converted input, that no
\* ParameterString, view, overlay or caller buffer shares (other than a borrow
\* of the OwnedString itself); this stays so after the input and every
\* ParameterString went out of scope.
C15_OwnedIndependent ==
  own.buf # 0 =>
    /\ own.buf # CallerBuf
    /\ mem[own.buf].st = "live"
    /\ mem[own.buf].data = ExpectedView(input)
    /\ ps.src # "own" => (ps.buf # own.buf /\ ps.backing # own.buf)
    /\ kl.src # "own" => kl.buf # own.buf
    /\ ovl.st = "live" => ovl.backing # own.buf
C15_Witness ==
  /\ own.buf # 0 /\ ~input.alive /\ input.kind = "erased"
  /\ Len(mem[own.buf].data) < Len(input.units)
  /\ ps = NoPS /\ kl = NoKL
C15_WitnessMoved ==
  /\ own.buf # 0 /\ ~input.alive /\ input.kind = "path"
  /\ Len(mem[own.buf].data) = MaxUnits + 1

\* UTF-16 with every surrogate paired, said without the decoder.
WellFormed(u) ==
  \A i \in 1..Len(u) :
    /\ IsHigh(u[i]) => (i < Len(u) /\ IsLow(u[i + 1]))
    /\ IsLow(u[i]) => (i > 1 /\ IsHigh(u[i - 1]))
\* The stored code units a decoding reads, terminator left out.
DecodedFrom(of) ==
  CASE of \in {"own", "own_debug"} -> split_last(mem[own.buf].data)
    [] of = "pstr" -> split_last(mem[CallerBuf].data)
    [] of = "erased_debug" -> split_last(ExpectedView(input))
NulInPath == input.kind = "path" /\ 0 \in Range(input.units)

\* C16: a path with an interior NUL is never converted: each attempt panics
\* on the spot and leaves no ParameterString or OwnedString; stored UTF-16
\* with an unpaired surrogate is never decoded: to_string and Debug panic and
\* return no text; and what a conversion or decoding does return is the
\* whole input, unit for unit: the view of a converted &str or &Path is its
\* encoding plus the terminator, and a decoded text encodes back to the units
\* it was read from.
C16_MalformedPanics ==
  [][/\ NulInPath =>
          /\ ps' = NoPS /\ own' = NoOwn
          /\ input'.alive => ghost'.panic = "nul"
     /\ (ps' # ps /\ ps'.src = "input") =>
          PsView(mem', ps') = ExpectedView(input)
     /\ (own' # own /\ own'.buf # 0) =>
          mem'[own'.buf].data = ExpectedView(input)
     /\ decoded' # decoded =>
          /\ decoded'.st = "ok"
          /\ WellFormed(DecodedFrom(decoded'.of))
          /\ encode_utf16(decoded'.val) = DecodedFrom(decoded'.of)
     /\ ghost'.panic = "utf16" => decoded' = decoded]_vars
C16_Witness ==
  /\ input.kind = "path" /\ own.buf # 0 /\ ghost.panic = "utf16"
  /\ decoded = NoDecoded /\ Len(input.units) = MaxUnits
C16_WitnessNul ==
  /\ NulInPath /\ ghost.panic = "nul" /\ input.units[1] # 0

\* C17: displaying an Error comes back, with the native runtime's
\* description of the wrapped value written out, and unwrapping an Error
\* gives the value that was wrapped.
C17_DisplayTerminates ==
  /\ shown.st # "overflow"
  /\ (shown.st = "done" /\ error.st = "wrapped") => shown.out = Describe(error.inner)
  /\ error.st = "unwrapped" => native = [st |-> "some", val |-> error.inner]

\* C18: a backing buffer the trampoline's conversion allocated (for a &str or
\* a &Path, directly or through a ParameterString made from one) belongs to
\* the overlay alone: while the overlay is alive the buffer is live and holds
\* the converted input, the header's pointer is that buffer and the header's
\* length is the buffer's length less the terminator; once the overlay is
\* dropped the buffer is freed.
C18_BackingLivesWithOverlay ==
  ovl.backing # 0 =>
    /\ input.kind \in {"str", "path"}
    /\ ovl.backing # CallerBuf
    /\ ps.backing # ovl.backing /\ ps.buf # ovl.backing
    /\ own.buf # ovl.backing /\ kl.buf # ovl.backing
    /\ hdr.st # "uninit" /\ hdr.ptr = ovl.backing
    /\ ovl.st = "live" =>
         /\ mem[ovl.backing].st = "live"
         /\ mem[ovl.backing].data = ExpectedView(input)
         /\ hdr.len = Len(mem[ovl.backing].data) - 1
         /\ mem[hdr.ptr].data[hdr.len + 1] = 0
    /\ ovl.st = "dropped" => mem[ovl.backing].st = "freed"
C18_Witness ==
  /\ ovl.st = "live" /\ ovl.backing # 0 /\ ovl.used /\ ovl.self = "ps"
  /\ input.kind = "path" /\ ~input.alive /\ hdr.st = "dead"
  /\ Len(mem[ovl.backing].data) = MaxUnits + 1

====
